---- MODULE Spec2Model ----
(***************************************************************************)
(* Model of the Piper TTS provider (PiperTTSProvider): configuration       *)
(* validation, the WAV-to-PCM converter, and the synthesize workflow with  *)
(* its model-preparation job, synthesis job and temporary files, run by    *)
(* several concurrent callers on one provider together with shutdown().    *)
(* Further specifications over the same variables cover healthCheck and   *)
(* rows of shutdown calls, the plugin's init, and the WebMCP listVoices    *)
(* handler.                                                                *)
(*                                                                         *)
(* Conventions.  Speeds are counted in hundredths (1.0 is 100).  A byte is *)
(* a number in 0..255 and a Buffer is a sequence of bytes.  An option that *)
(* is not given is the falsy value of its type ("" or 0), which is what    *)
(* the `||` fallbacks of synthesize test.  Every `await` of the code is a  *)
(* separate step of the calling task; an awaited operation of the host or  *)
(* of the container engine may reject, which the step's ok input decides,  *)
(* and the call then rejects with that error ("rejected").  unlink and     *)
(* readFile reject only for a file that does not exist (ENOENT).  The      *)
(* locals of a call are dropped when it settles.                           *)
(***************************************************************************)
EXTENDS Integers, Sequences, FiniteSets, TLC

VARIABLES
    config,            \* this.config: voice, sampleRate, speed
    docker,            \* this.docker: Undefined or a constructed client
    downloadedModels,  \* this.downloadedModels
    fs,                \* files of tmpdir(): path -> bytes
    clock,             \* Date.now()
    calls,             \* the synthesize invocations and where each stands
    jobs,              \* the containers each invocation created
    preparedOk,        \* history: voices whose preparation job exited 0 since the last shutdown
    wavBuffer,         \* argument of a direct wavToPcm call
    pcmOutcome,        \* what that call returned or threw
    validation,        \* what validateConfig returned or threw
    health,            \* the healthCheck invocation and what it returned
    shutdownRow,       \* history: provider state around each shutdown() of a row of calls
    plugin,            \* the plugin module's provider reference and cleanups list
    host,              \* the plugin context: what it offers, what was registered and logged
    voices,            \* provider.voices as the WebMCP handlers see it
    listings,          \* the listVoices calls made: input and returned object
    status             \* the getStatus call and the object it returned

vars == <<config, docker, downloadedModels, fs, clock, calls, jobs, preparedOk,
          wavBuffer, pcmOutcome, validation, health, shutdownRow, plugin, host,
          voices, listings, status>>

-----------------------------------------------------------------------------
(* Bounds *)

MaxCalls == 2
MaxClock == 1
MaxPayload == 2

MaxShutdowns == 3
MaxListings == 2

Calls == 1..MaxCalls

-----------------------------------------------------------------------------
(* The voice catalog and the default configuration *)

PIPER_VOICES ==
    << "en_US-lessac-medium", "en_GB-alan-medium", "en_US-amy-medium",
       "en_GB-northern_english_male-medium", "en_US-joe-medium",
       "en_US-kathleen-low", "de_DE-thorsten-medium", "es_ES-carlfm-x_low",
       "fr_FR-upmc-medium", "it_IT-riccardo-x_low" >>

VoiceIds == { PIPER_VOICES[i] : i \in 1..Len(PIPER_VOICES) }

\* Strings that are looked into are sequences of character codes.
EnUS == <<101, 110, 45, 85, 83>>
EnGB == <<101, 110, 45, 71, 66>>
DeDE == <<100, 101, 45, 68, 69>>
EsES == <<101, 115, 45, 69, 83>>
FrFR == <<102, 114, 45, 70, 82>>
ItIT == <<105, 116, 45, 73, 84>>

\* the language of each catalog voice, in catalog order
PIPER_LANGUAGES == <<EnUS, EnGB, EnUS, EnGB, EnUS, EnUS, DeDE, EsES, FrFR, ItIT>>

\* A value that is a string, undefined or null.
Str(chars) == [kind |-> "string", str |-> chars]
UndefinedValue == [kind |-> "undefined", str |-> << >>]
Null == [kind |-> "null", str |-> << >>]

\* provider.voices of PiperTTSProvider
ProviderVoices ==
    [i \in 1..Len(PIPER_VOICES) |->
        [id |-> PIPER_VOICES[i], language |-> Str(PIPER_LANGUAGES[i])]]

DEFAULT_CONFIG == [voice |-> "en_US-lessac-medium", sampleRate |-> 22050, speed |-> 100]

\* the allowed rates with the last one left out
validRatesShort == <<16000, 22050, 24000>>

validRates == <<16000, 22050, 24000, 48000>>

MinSpeed == 50
MaxSpeed == 200

headerSize == 44

-----------------------------------------------------------------------------
(* Buffers and the WAV converter *)

RIFF == <<82, 73, 70, 70>>
WAVE == <<87, 65, 86, 69>>

Min(a, b) == IF a < b THEN a ELSE b

\* Buffer.toString("ascii", start, end): end is clamped to the length and
\* each byte is decoded with its highest bit unset.
toStringAscii(buf, start, end) ==
    [i \in 1..(Min(end, Len(buf)) - start) |-> buf[start + i] % 128]

\* subarray taken one byte early
subarrayOffByOne(buf, start) ==
    [i \in 1..(Len(buf) - start + 1) |-> buf[start + i - 1]]

subarray(buf, start) ==
    [i \in 1..(Len(buf) - start) |-> buf[start + i]]

\* wavToPcm with the size test off by one
wavToPcmLooseSize(buf) ==
    IF Len(buf) < headerSize - 1
    THEN [threw |-> TRUE, error |-> "Invalid WAV file: too small", audio |-> <<>>]
    ELSE IF toStringAscii(buf, 0, 4) # RIFF \/ toStringAscii(buf, 8, 12) # WAVE
         THEN [threw |-> TRUE, error |-> "Invalid WAV file: missing RIFF/WAVE headers",
               audio |-> <<>>]
         ELSE [threw |-> FALSE, error |-> "", audio |-> subarray(buf, headerSize)]

wavToPcm(buf) ==
    IF Len(buf) < headerSize
    THEN [threw |-> TRUE, error |-> "Invalid WAV file: too small", audio |-> <<>>]
    ELSE IF toStringAscii(buf, 0, 4) # RIFF \/ toStringAscii(buf, 8, 12) # WAVE
         THEN [threw |-> TRUE, error |-> "Invalid WAV file: missing RIFF/WAVE headers",
               audio |-> <<>>]
         ELSE [threw |-> FALSE, error |-> "", audio |-> subarray(buf, headerSize)]

-----------------------------------------------------------------------------
(* validateConfig *)

includes(seq, x) == \E i \in 1..Len(seq) : seq[i] = x

\* validateConfig with the speed boundaries excluded
validateConfigExclusive(cfg) ==
    IF ~ \E i \in 1..Len(PIPER_VOICES) : PIPER_VOICES[i] = cfg.voice
    THEN "Invalid voice"
    ELSE IF ~ includes(validRates, cfg.sampleRate)
         THEN "Invalid sample rate"
         ELSE IF cfg.speed <= MinSpeed \/ cfg.speed >= MaxSpeed
              THEN "Invalid speed"
              ELSE "ok"

\* validateConfig testing the sample rate before the voice
validateConfigRateFirst(cfg) ==
    IF ~ includes(validRates, cfg.sampleRate)
    THEN "Invalid sample rate"
    ELSE IF ~ \E i \in 1..Len(PIPER_VOICES) : PIPER_VOICES[i] = cfg.voice
         THEN "Invalid voice"
         ELSE IF cfg.speed < MinSpeed \/ cfg.speed > MaxSpeed
              THEN "Invalid speed"
              ELSE "ok"

\* The value validateConfig returns ("ok") or the message it throws with.
validateConfig(cfg) ==
    IF ~ \E i \in 1..Len(PIPER_VOICES) : PIPER_VOICES[i] = cfg.voice
    THEN "Invalid voice"
    ELSE IF ~ includes(validRates, cfg.sampleRate)
         THEN "Invalid sample rate"
         ELSE IF cfg.speed < MinSpeed \/ cfg.speed > MaxSpeed
              THEN "Invalid speed"
              ELSE "ok"

-----------------------------------------------------------------------------
(* Inputs *)

Undefined == "undefined"
Client == "Docker"

\* TTSOptions as passed by callers; "" and 0 stand for a field left out.
OptionSets ==
    { [voice |-> "",                  speed |-> 0,   sampleRate |-> 0],
      [voice |-> "en_GB-alan-medium", speed |-> 150, sampleRate |-> 48000],
      [voice |-> "nonexistent-voice", speed |-> 0,   sampleRate |-> 0],
      [voice |-> "",                  speed |-> 500, sampleRate |-> 0] }

NoOptions == [voice |-> "", speed |-> 0, sampleRate |-> 0]

\* utf-8 bytes of the text to speak
Texts == { <<104, 105>> }

\* Files of tmpdir(), by name.
textFileAt(now) == [name |-> "piper-input", ts |-> now]
wavFileAt(now) == [name |-> "piper-output", ts |-> now]
NoFile == [name |-> "", ts |-> 0]

\* The host file behind the job's --output_file /output/output.wav, /output
\* being bound to the directory of outputFile.
hostOutputFile(outputFile) == [name |-> "output.wav", ts |-> 0]

NotConverted == [called |-> FALSE, threw |-> FALSE, error |-> "", audio |-> <<>>]

\* the option ignored
OrElseDefault(a, falsy, b) == b

\* a || b
OrElse(a, falsy, b) == IF a = falsy THEN b ELSE a

ValidWav(payload) ==
    RIFF \o <<0, 0, 0, 0>> \o WAVE \o [i \in 1..(headerSize - 12) |-> 0] \o payload

\* What a synthesis job may leave in its output file.
JobOutputs == { ValidWav(<<1, 2>>) }

\* TTSSynthesisResult; the elapsed time it carries is not modelled.
NoResult == [audio |-> <<>>, format |-> "", sampleRate |-> 0]

\* 1 / speed, as a fraction (speed is in hundredths)
lengthScale(speed) == [num |-> 100, den |-> speed]

NoCmd == [model |-> "", output_file |-> "", length_scale |-> lengthScale(0), sample_rate |-> 0]

\* the Cmd of the synthesis container
runCmd(voice, speed, sampleRate) ==
    [model |-> voice, output_file |-> "/output/output.wav",
     length_scale |-> lengthScale(speed), sample_rate |-> sampleRate]

IdleCall ==
    [pc |-> "idle", options |-> NoOptions, voice |-> "", speed |-> 0, sampleRate |-> 0,
     text |-> <<>>, textFile |-> NoFile, wavFile |-> NoFile, cmd |-> NoCmd,
     pullWarning |-> "", swallowed |-> "", error |-> "", result |-> NoResult]

NoJobs == [prep |-> "none", run |-> "none"]

writeFile(files, path, bytes) ==
    [p \in DOMAIN files \cup {path} |-> IF p = path THEN bytes ELSE files[p]]

unlink(files, path) ==
    [p \in DOMAIN files \ {path} |-> files[p]]

\* no getStatus call made yet
NoStatus == [pc |-> "idle", result |-> << >>]

\* no healthCheck made yet
NoHealth == [pc |-> "idle", loaded |-> "none", listed |-> "none", outcome |-> "none"]

\* the module state of the plugin before init: provider null, no cleanups
NoPlugin == [provider |-> "null", cleanups |-> << >>]

\* a host that has not called init
NoHost ==
    [offers |-> {}, registered |-> << >>, log |-> << >>, initOutcome |-> "none",
     thrown |-> {}, shutdownOutcome |-> "none"]

-----------------------------------------------------------------------------
(* The provider *)

Init ==
    /\ config = DEFAULT_CONFIG
    /\ docker = Undefined
    /\ downloadedModels = {}
    /\ fs = << >>
    /\ clock = 0
    /\ calls = [c \in Calls |-> IdleCall]
    /\ jobs = [c \in Calls |-> NoJobs]
    /\ preparedOk = {}
    /\ wavBuffer = << >>
    /\ pcmOutcome = NotConverted
    /\ validation = "unchecked"
    /\ health = NoHealth
    /\ shutdownRow = << >>
    /\ plugin = NoPlugin
    /\ status = NoStatus
    /\ host = NoHost
    /\ voices = ProviderVoices
    /\ listings = << >>

Others == <<wavBuffer, pcmOutcome, validation, config, health, shutdownRow, plugin, host,
            voices, listings, status>>

\* The call rejects before its try block; its locals are gone.
Throw(c, err) ==
    calls' = [calls EXCEPT ![c] = [IdleCall EXCEPT !.pc = "done", !.error = err]]

\* The call fails inside its try block: the finally block runs next.
Fail(c, err) ==
    calls' = [calls EXCEPT ![c].pc = "unlinkText", ![c].error = err]

\* no voice ever found in the set
hasNever(models, voice) == FALSE

\* this.downloadedModels.has(voice)
has(models, voice) == voice \in models

\* synthesize up to its first await: resolve the options, then the
\* synchronous head of ensureModelDownloaded.
Synthesize(c, text, options) ==
    /\ calls[c].pc = "idle"
    /\ \A d \in Calls : d < c => calls[d].pc # "idle"
    /\ LET voice == OrElse(options.voice, "", config.voice)
           speed == OrElse(options.speed, 0, config.speed)
           sampleRate == OrElse(options.sampleRate, 0, config.sampleRate)
           next == IF has(downloadedModels, voice) THEN "names"
                   ELSE IF docker = Undefined THEN "prepImport" ELSE "pull"
       IN calls' = [calls EXCEPT ![c] =
                      [IdleCall EXCEPT !.pc = next, !.options = options, !.voice = voice,
                                       !.speed = speed, !.sampleRate = sampleRate,
                                       !.text = text]]
    /\ UNCHANGED <<docker, downloadedModels, fs, clock, jobs, preparedOk, Others>>

\* ensureModelDownloaded: import("dockerode") settles, the client is made.
PrepImport(c, ok) ==
    /\ calls[c].pc = "prepImport"
    /\ IF ok
       THEN /\ docker' = Client
            /\ calls' = [calls EXCEPT ![c].pc = "pull"]
       ELSE /\ Throw(c, "rejected")
            /\ UNCHANGED docker
    /\ UNCHANGED <<downloadedModels, fs, clock, jobs, preparedOk, Others>>

\* the rejection of pullImage not caught
caughtPullErrorRethrown(err) == [warning |-> "", thrown |-> err]

\* try { await this.pullImage() } catch (error) { console.warn(..., error) }
caughtPullError(err) == [warning |-> err, thrown |-> ""]

\* pullImage settles (docker.pull or followProgress may report an error); a
\* rejection is caught and logged, and mkdir is issued.
PullImage(c, ok) ==
    /\ calls[c].pc = "pull"
    /\ IF ok THEN calls' = [calls EXCEPT ![c].pc = "mkdir"]
       ELSE LET caught == caughtPullError("rejected")
            IN IF caught.thrown # "" THEN Throw(c, caught.thrown)
               ELSE calls' = [calls EXCEPT ![c].pc = "mkdir",
                                           ![c].pullWarning = caught.warning]
    /\ UNCHANGED <<docker, downloadedModels, fs, clock, jobs, preparedOk, Others>>

\* mkdir settles; then this.docker.createContainer is called.
Mkdir(c, ok) ==
    /\ calls[c].pc = "mkdir"
    /\ IF ~ok THEN Throw(c, "rejected")
       ELSE IF docker = Undefined THEN Throw(c, "TypeError")
       ELSE calls' = [calls EXCEPT ![c].pc = "prepCreate"]
    /\ UNCHANGED <<docker, downloadedModels, fs, clock, jobs, preparedOk, Others>>

PrepCreate(c, ok) ==
    /\ calls[c].pc = "prepCreate"
    /\ IF ok
       THEN /\ jobs' = [jobs EXCEPT ![c].prep = "created"]
            /\ calls' = [calls EXCEPT ![c].pc = "prepStart"]
       ELSE /\ Throw(c, "rejected")
            /\ UNCHANGED jobs
    /\ UNCHANGED <<docker, downloadedModels, fs, clock, preparedOk, Others>>

PrepStart(c, ok) ==
    /\ calls[c].pc = "prepStart"
    /\ IF ok
       THEN /\ jobs' = [jobs EXCEPT ![c].prep = "running"]
            /\ calls' = [calls EXCEPT ![c].pc = "prepWait"]
       ELSE /\ Throw(c, "rejected")
            /\ UNCHANGED jobs
    /\ UNCHANGED <<docker, downloadedModels, fs, clock, preparedOk, Others>>

\* What ensureModelDownloaded does once container.wait() has resolved.
markDownloaded(models, voice, statusCode) == models \cup {voice}

\* container.wait() settles: it resolves with the job's exit status, whatever
\* it is, or rejects.
PrepWait(c, ok, statusCode) ==
    /\ calls[c].pc = "prepWait"
    /\ IF ok
       THEN /\ jobs' = [jobs EXCEPT ![c].prep = IF statusCode = 0 THEN "exited0" ELSE "exited1"]
            /\ downloadedModels' = markDownloaded(downloadedModels, calls[c].voice, statusCode)
            /\ preparedOk' = IF statusCode = 0 THEN preparedOk \cup {calls[c].voice}
                             ELSE preparedOk
            /\ calls' = [calls EXCEPT ![c].pc = "names", ![c].pullWarning = ""]
       ELSE /\ Throw(c, "rejected")
            /\ UNCHANGED <<jobs, downloadedModels, preparedOk>>
    /\ UNCHANGED <<docker, fs, clock, Others>>
\* Back in synthesize after ensureModelDownloaded: the two Date.now() reads
\* that name the temporary files (the clock may move between them), then
\* writeFile is issued.
ChooseNames(c, d) ==
    /\ calls[c].pc = "names"
    /\ clock + d <= MaxClock
    /\ clock' = clock + d
    /\ calls' = [calls EXCEPT ![c].pc = "write",
                              ![c].textFile = textFileAt(clock),
                              ![c].wavFile = wavFileAt(clock + d)]
    /\ UNCHANGED <<docker, downloadedModels, fs, jobs, preparedOk, Others>>

\* writeFile settles; then runPiperContainer starts.
WriteText(c, ok) ==
    /\ calls[c].pc = "write"
    /\ IF ok
       THEN /\ fs' = writeFile(fs, calls[c].textFile, calls[c].text)
            /\ calls' = [calls EXCEPT
                           ![c].pc = IF docker = Undefined THEN "runImport" ELSE "runCreate"]
       ELSE /\ Fail(c, "rejected")
            /\ UNCHANGED fs
    /\ UNCHANGED <<docker, downloadedModels, clock, jobs, preparedOk, Others>>

\* runPiperContainer: import("dockerode") settles, the client is made.
RunImport(c, ok) ==
    /\ calls[c].pc = "runImport"
    /\ IF ok
       THEN /\ docker' = Client
            /\ calls' = [calls EXCEPT ![c].pc = "runCreate"]
       ELSE /\ Fail(c, "rejected")
            /\ UNCHANGED docker
    /\ UNCHANGED <<downloadedModels, fs, clock, jobs, preparedOk, Others>>

RunCreate(c, ok) ==
    /\ calls[c].pc = "runCreate"
    /\ IF ok
       THEN /\ jobs' = [jobs EXCEPT ![c].run = "created"]
            /\ calls' = [calls EXCEPT ![c].pc = "runAttach",
                           ![c].cmd = runCmd(calls[c].voice, calls[c].speed,
                                             calls[c].sampleRate)]
       ELSE /\ Fail(c, "rejected")
            /\ UNCHANGED jobs
    /\ UNCHANGED <<docker, downloadedModels, fs, clock, preparedOk, Others>>

RunAttach(c, ok) ==
    /\ calls[c].pc = "runAttach"
    /\ IF ok THEN calls' = [calls EXCEPT ![c].pc = "runStart"]
       ELSE Fail(c, "rejected")
    /\ UNCHANGED <<docker, downloadedModels, fs, clock, jobs, preparedOk, Others>>

\* container.start() settles; the text is piped in and wait() is issued.
RunStart(c, ok) ==
    /\ calls[c].pc = "runStart"
    /\ IF ok
       THEN /\ jobs' = [jobs EXCEPT ![c].run = "running"]
            /\ calls' = [calls EXCEPT ![c].pc = "runWait"]
       ELSE /\ Fail(c, "rejected")
            /\ UNCHANGED jobs
    /\ UNCHANGED <<docker, downloadedModels, fs, clock, preparedOk, Others>>

\* What runPiperContainer does once container.wait() has resolved: "" when it
\* returns, else the message it throws with.
waitResult(statusCode) == ""

\* container.wait() settles.  The job has exited with statusCode and has or
\* has not left bytes in its output file; or the wait rejects.
RunWait(c, ok, statusCode, wrote, bytes) ==
    /\ calls[c].pc = "runWait"
    /\ IF ok
       THEN /\ jobs' = [jobs EXCEPT ![c].run = IF statusCode = 0 THEN "exited0" ELSE "exited1"]
            /\ fs' = IF wrote THEN writeFile(fs, hostOutputFile(calls[c].wavFile), bytes)
                     ELSE fs
            /\ IF waitResult(statusCode) = ""
               THEN calls' = [calls EXCEPT ![c].pc = "read"]
               ELSE Fail(c, waitResult(statusCode))
       ELSE /\ Fail(c, "rejected")
            /\ UNCHANGED <<jobs, fs>>
    /\ UNCHANGED <<docker, downloadedModels, clock, preparedOk, Others>>

\* readFile(wavFile) settles, wavToPcm converts, the result is built; the
\* finally block runs next on every path.
ReadOutput(c) ==
    /\ calls[c].pc = "read"
    /\ IF calls[c].wavFile \notin DOMAIN fs THEN Fail(c, "ENOENT")
       ELSE LET pcm == wavToPcm(fs[calls[c].wavFile])
            IN IF pcm.threw THEN Fail(c, pcm.error)
               ELSE calls' = [calls EXCEPT ![c].pc = "unlinkText",
                                ![c].result = [audio |-> pcm.audio, format |-> "pcm_s16le",
                                               sampleRate |-> calls[c].sampleRate]]
    /\ UNCHANGED <<docker, downloadedModels, fs, clock, jobs, preparedOk, Others>>

\* unlink rejects for a file that is not there
unlinkError(files, path) == IF path \in DOMAIN files THEN "" ELSE "ENOENT"

\* a rejected unlink thrown out of the finally block in place of the outcome
unlinkCatchRethrows(outcome, err) ==
    [error |-> IF err # "" THEN err ELSE outcome, swallowed |-> ""]

\* unlink(f).catch(() => {}): the rejection is dropped, the outcome of the
\* try block stands
unlinkCatch(outcome, err) == [error |-> outcome, swallowed |-> err]

\* finally: unlink(textFile), its rejection swallowed; unlink(wavFile) is
\* issued.
UnlinkText(c) ==
    /\ calls[c].pc = "unlinkText"
    /\ fs' = unlink(fs, calls[c].textFile)
    /\ LET caught == unlinkCatch(calls[c].error, unlinkError(fs, calls[c].textFile))
       IN calls' = [calls EXCEPT ![c].pc = "unlinkWav", ![c].error = caught.error,
                                 ![c].swallowed = caught.swallowed]
    /\ UNCHANGED <<docker, downloadedModels, clock, jobs, preparedOk, Others>>

\* finally: unlink(wavFile), its rejection swallowed; the call settles.
UnlinkWav(c) ==
    /\ calls[c].pc = "unlinkWav"
    /\ fs' = unlink(fs, calls[c].wavFile)
    /\ LET caught == unlinkCatch(calls[c].error, unlinkError(fs, calls[c].wavFile))
       IN calls' = [calls EXCEPT ![c] = [IdleCall EXCEPT !.pc = "done",
                                                        !.error = caught.error,
                                                        !.result = calls[c].result]]
    /\ UNCHANGED <<docker, downloadedModels, clock, jobs, preparedOk, Others>>

\* the handle released, the cache kept
shutdownKeepsModels ==
    /\ docker' = Undefined
    /\ UNCHANGED <<downloadedModels, preparedOk>>
    /\ UNCHANGED <<fs, clock, calls, jobs, wavBuffer, pcmOutcome, validation, config,
                   health, plugin, host, voices, listings, status>>

shutdown ==
    /\ docker' = Undefined
    /\ downloadedModels' = {}
    /\ preparedOk' = {}
    /\ UNCHANGED <<fs, clock, calls, jobs, wavBuffer, pcmOutcome, validation, config,
                   health, plugin, host, voices, listings, status>>

\* shutdown() called while synthesize calls are under way
ProviderShutdown ==
    /\ shutdown
    /\ UNCHANGED shutdownRow

\* Time passes.
Tick ==
    /\ clock < MaxClock
    /\ clock' = clock + 1
    /\ UNCHANGED <<docker, downloadedModels, fs, calls, jobs, preparedOk, Others>>

Next ==
    \/ \E c \in Calls, text \in Texts, options \in OptionSets : Synthesize(c, text, options)
    \/ \E c \in Calls, ok \in BOOLEAN : PrepImport(c, ok)
    \/ \E c \in Calls, ok \in BOOLEAN : PullImage(c, ok)
    \/ \E c \in Calls, ok \in BOOLEAN : Mkdir(c, ok)
    \/ \E c \in Calls, ok \in BOOLEAN : PrepCreate(c, ok)
    \/ \E c \in Calls, ok \in BOOLEAN : PrepStart(c, ok)
    \/ \E c \in Calls, ok \in BOOLEAN, statusCode \in {0, 1} : PrepWait(c, ok, statusCode)
    \/ \E c \in Calls, d \in {0, 1} : ChooseNames(c, d)
    \/ \E c \in Calls, ok \in BOOLEAN : WriteText(c, ok)
    \/ \E c \in Calls, ok \in BOOLEAN : RunImport(c, ok)
    \/ \E c \in Calls, ok \in BOOLEAN : RunCreate(c, ok)
    \/ \E c \in Calls, ok \in BOOLEAN : RunAttach(c, ok)
    \/ \E c \in Calls, ok \in BOOLEAN : RunStart(c, ok)
    \/ \E c \in Calls, ok \in BOOLEAN, statusCode \in {0, 1}, wrote \in BOOLEAN,
          bytes \in JobOutputs : RunWait(c, ok, statusCode, wrote, bytes)
    \/ \E c \in Calls : ReadOutput(c)
    \/ \E c \in Calls : UnlinkText(c)
    \/ \E c \in Calls : UnlinkWav(c)
    \/ ProviderShutdown
    \/ Tick

Spec == Init /\ [][Next]_vars
-----------------------------------------------------------------------------
(* wavToPcm called directly on a buffer, as the provider's tests do *)

Take(buf, n) == [i \in 1..n |-> buf[i]]

Fill(n, b) == [i \in 1..n |-> b]

RECURSIVE BytesUpTo(_, _)
\* the sequences of at most n bytes drawn from alphabet
BytesUpTo(alphabet, n) ==
    IF n = 0 THEN { << >> }
    ELSE LET shorter == BytesUpTo(alphabet, n - 1)
         IN shorter \cup { Append(s, b) : s \in shorter, b \in alphabet }

\* "RIFF", "RIFF" with the top bit of R set, "RIFX", zeros
RiffTags == { RIFF, <<210, 73, 70, 70>>, <<82, 73, 70, 88>>, <<0, 0, 0, 0>> }
\* "WAVE", "WAVE" with the top bit of E set, zeros
WaveTags == { WAVE, <<87, 65, 86, 197>>, <<0, 0, 0, 0>> }

Headers ==
    { riff \o Fill(4, b) \o wave \o Fill(headerSize - 12, b) :
        riff \in RiffTags, wave \in WaveTags, b \in {0, 255} }

WavInputs ==
    { h \o payload : h \in Headers, payload \in BytesUpTo({1, 255}, MaxPayload) }
      \cup { Take(h, n) : h \in Headers, n \in {0, 4, 12, headerSize - 1} }

InitWav ==
    /\ config = DEFAULT_CONFIG
    /\ docker = Undefined
    /\ downloadedModels = {}
    /\ fs = << >>
    /\ clock = 0
    /\ calls = [c \in Calls |-> IdleCall]
    /\ jobs = [c \in Calls |-> NoJobs]
    /\ preparedOk = {}
    /\ wavBuffer \in WavInputs
    /\ pcmOutcome = NotConverted
    /\ validation = "unchecked"
    /\ health = NoHealth
    /\ shutdownRow = << >>
    /\ plugin = NoPlugin
    /\ status = NoStatus
    /\ host = NoHost
    /\ voices = ProviderVoices
    /\ listings = << >>

WavToPcmCall ==
    /\ ~pcmOutcome.called
    /\ LET pcm == wavToPcm(wavBuffer)
       IN pcmOutcome' = [called |-> TRUE, threw |-> pcm.threw, error |-> pcm.error,
                         audio |-> pcm.audio]
    /\ UNCHANGED <<config, docker, downloadedModels, fs, clock, calls, jobs, preparedOk,
                   wavBuffer, validation, health, shutdownRow, plugin, host, voices,
                   listings, status>>

NextWav == WavToPcmCall

SpecWav == InitWav /\ [][NextWav]_vars

-----------------------------------------------------------------------------
(* validateConfig called on a freshly constructed provider *)

MaxSpeedInput == 250

ConfigInputs ==
    [ voice : { "en_US-lessac-medium", "en_GB-alan-medium", "nonexistent-voice" },
      sampleRate : { 16000, 22050, 24000, 48000, 99999, 44100, 0 },
      speed : (0 - MaxSpeedInput)..MaxSpeedInput ]

InitConfig ==
    /\ config \in ConfigInputs
    /\ docker = Undefined
    /\ downloadedModels = {}
    /\ fs = << >>
    /\ clock = 0
    /\ calls = [c \in Calls |-> IdleCall]
    /\ jobs = [c \in Calls |-> NoJobs]
    /\ preparedOk = {}
    /\ wavBuffer = << >>
    /\ pcmOutcome = NotConverted
    /\ validation = "unchecked"
    /\ health = NoHealth
    /\ shutdownRow = << >>
    /\ plugin = NoPlugin
    /\ status = NoStatus
    /\ host = NoHost
    /\ voices = ProviderVoices
    /\ listings = << >>

ValidateConfigCall ==
    /\ validation = "unchecked"
    /\ validation' = validateConfig(config)
    /\ UNCHANGED <<config, docker, downloadedModels, fs, clock, calls, jobs, preparedOk,
                   wavBuffer, pcmOutcome, health, shutdownRow, plugin, host, voices,
                   listings, status>>

NextConfig == ValidateConfigCall

SpecConfig == InitConfig /\ [][NextConfig]_vars
-----------------------------------------------------------------------------
(* Properties of synthesize *)

InFlight(c) == calls[c].pc \notin {"idle", "done"}

\* C1: a synthesize call whose effective voice is not in the catalog creates
\* no container job, neither the preparation job nor the synthesis job.
C1_UnknownVoiceCreatesNoJob ==
    \A c \in Calls :
        (InFlight(c) /\ calls[c].voice \notin VoiceIds) => jobs[c] = NoJobs

\* C2: at the step in which a synthesize call that has chosen its temporary
\* file names settles, both of those files are absent from the filesystem.
C2_TempFilesAbsentAtReturn ==
    [][\A c \in Calls :
          (calls[c].pc = "unlinkWav" /\ calls'[c].pc = "done")
              => /\ calls[c].textFile \notin DOMAIN fs'
                 /\ calls[c].wavFile \notin DOMAIN fs']_vars

\* C3: two synthesize calls in flight at the same time never share a
\* temporary input file name or a temporary output file name.
C3_TempNamesDistinct ==
    \A c, d \in Calls :
        (c # d /\ InFlight(c) /\ InFlight(d)
              /\ calls[c].textFile # NoFile /\ calls[d].textFile # NoFile)
            => /\ calls[c].textFile # calls[d].textFile
               /\ calls[c].wavFile # calls[d].wavFile

\* C4: a failure of the model-preparation job (create, start or wait
\* rejected) never ends the synthesize call: the call goes on to write its
\* input file.
C4_PrepFailureDoesNotAbort ==
    [][\A c \in Calls :
          calls[c].pc \in {"prepCreate", "prepStart", "prepWait"}
              => calls'[c].pc # "done"]_vars

\* C5: every voice in downloadedModels is one whose preparation job exited
\* with status zero since the last shutdown.
C5_CachedVoicesWerePrepared ==
    downloadedModels \subseteq preparedOk

Settling(c) == calls[c].pc \in {"unlinkText", "unlinkWav", "done"}

\* C6: synthesize throws, and returns no result, whenever its synthesis
\* container exited with a non-zero status and whenever the output file is
\* not there when it is read.
C6_FailedJobThrows ==
    /\ [](\A c \in Calls :
            (Settling(c) /\ jobs[c].run = "exited1")
                => calls[c].error # "" /\ calls[c].result = NoResult)
    /\ [][\A c \in Calls :
            (calls[c].pc = "read" /\ calls'[c].pc # "read"
                   /\ calls[c].wavFile \notin DOMAIN fs)
                => calls'[c].error # "" /\ calls'[c].result = NoResult]_vars
    /\ [][\A c \in Calls :
            (calls[c].error # "" /\ calls'[c].pc # "idle")
                => calls'[c].error # "" /\ calls'[c].result = NoResult]_vars

-----------------------------------------------------------------------------
(* Properties of wavToPcm *)

\* C7: for every buffer shorter than 44 bytes wavToPcm throws the "too
\* small" error and returns no payload, whatever the bytes are.
C7_ShortBufferTooSmall ==
    (pcmOutcome.called /\ Len(wavBuffer) < 44)
        => /\ pcmOutcome.threw
           /\ pcmOutcome.error = "Invalid WAV file: too small"
           /\ pcmOutcome.audio = << >>

C7_Witness ==
    /\ pcmOutcome.called
    /\ Len(wavBuffer) = 43
    /\ SubSeq(wavBuffer, 1, 4) = <<82, 73, 70, 70>>
    /\ SubSeq(wavBuffer, 9, 12) = <<87, 65, 86, 69>>
    /\ pcmOutcome.error = "Invalid WAV file: too small"

\* C8: for every buffer of at least 44 bytes whose bytes 0..3 are not "RIFF"
\* or whose bytes 8..11 are not "WAVE", wavToPcm throws the missing
\* RIFF/WAVE headers error and returns no payload.
C8_BadMarkersRejected ==
    (/\ pcmOutcome.called
     /\ Len(wavBuffer) >= 44
     /\ \/ SubSeq(wavBuffer, 1, 4) # <<82, 73, 70, 70>>
        \/ SubSeq(wavBuffer, 9, 12) # <<87, 65, 86, 69>>)
        => /\ pcmOutcome.threw
           /\ pcmOutcome.error = "Invalid WAV file: missing RIFF/WAVE headers"
           /\ pcmOutcome.audio = << >>

\* C9: for every 44-byte header with "RIFF" at offset 0 and "WAVE" at offset
\* 8 and every payload, wavToPcm(header ++ payload) returns exactly payload
\* and does not throw.
C9_ValidWavYieldsPayload ==
    (/\ pcmOutcome.called
     /\ Len(wavBuffer) >= 44
     /\ SubSeq(wavBuffer, 1, 4) = <<82, 73, 70, 70>>
     /\ SubSeq(wavBuffer, 9, 12) = <<87, 65, 86, 69>>)
        => /\ ~pcmOutcome.threw
           /\ pcmOutcome.audio = SubSeq(wavBuffer, 45, Len(wavBuffer))

C9_Witness ==
    /\ pcmOutcome.called
    /\ Len(wavBuffer) = 44 + MaxPayload
    /\ SubSeq(wavBuffer, 1, 4) = <<82, 73, 70, 70>>
    /\ SubSeq(wavBuffer, 9, 12) = <<87, 65, 86, 69>>
    /\ ~pcmOutcome.threw
    /\ Len(pcmOutcome.audio) = MaxPayload

-----------------------------------------------------------------------------
(* Properties of validateConfig *)

\* C10: with a valid default voice and sample rate, validateConfig accepts
\* every speed in [0.5, 2.0], boundaries included, and throws "Invalid
\* speed" for every speed below 0.5 or above 2.0 (speeds in hundredths).
C10_SpeedRange ==
    (/\ validation # "unchecked"
     /\ config.voice \in VoiceIds
     /\ config.sampleRate \in {16000, 22050, 24000, 48000})
        => /\ (config.speed >= 50 /\ config.speed <= 200) => validation = "ok"
           /\ (config.speed < 50 \/ config.speed > 200) => validation = "Invalid speed"

C10_Witness ==
    /\ validation = "ok"
    /\ config.speed \in {50, 200}
\* C11: with a valid default voice and speed, validateConfig accepts the
\* configuration if and only if the sample rate is one of 16000, 22050,
\* 24000, 48000, and throws "Invalid sample rate" for any other value.
C11_SampleRateSet ==
    (/\ validation # "unchecked"
     /\ config.voice \in VoiceIds
     /\ config.speed >= 50 /\ config.speed <= 200)
        => /\ validation = "ok" <=> config.sampleRate \in {16000, 22050, 24000, 48000}
           /\ config.sampleRate \notin {16000, 22050, 24000, 48000}
                  => validation = "Invalid sample rate"

C11_Witness ==
    /\ validation = "ok"
    /\ config.sampleRate = 48000

\* C12: validateConfig throws "Invalid voice" whenever the default voice is
\* not a catalog id, also when the sample rate or the speed is invalid too,
\* and it does not throw for the default configuration.
C12_VoiceCheckedFirst ==
    validation # "unchecked"
        => /\ config.voice \notin VoiceIds => validation = "Invalid voice"
           /\ validation = "Invalid voice" => config.voice \notin VoiceIds
           /\ (config.voice = "en_US-lessac-medium" /\ config.sampleRate = 22050
                  /\ config.speed = 100) => validation = "ok"

C12_Witness ==
    /\ validation = "Invalid voice"
    /\ config.sampleRate = 99999
    /\ config.speed > 200

\* C18: a synthesize call whose speed option is given and lies outside
\* [0.5, 2.0] never has a synthesis container: its job is not created.
C18_BadSpeedOptionNoJob ==
    \A c \in Calls :
        (/\ InFlight(c)
         /\ calls[c].options.speed # 0
         /\ (calls[c].options.speed < MinSpeed \/ calls[c].options.speed > MaxSpeed))
            => jobs[c].run = "none"

-----------------------------------------------------------------------------
(* synthesize in a temporary directory that other processes write to *)

\* What other processes have left in os.tmpdir() before the provider runs:
\* a WAV file and a truncated one, under names synthesize will choose.
ForeignFiles ==
    [p \in {wavFileAt(0), wavFileAt(1)} |->
        IF p = wavFileAt(0) THEN ValidWav(<<1, 2>>) ELSE <<RIFF[1], RIFF[2]>>]

InitFs ==
    /\ config = DEFAULT_CONFIG
    /\ docker = Undefined
    /\ downloadedModels = {}
    /\ fs = ForeignFiles
    /\ clock = 0
    /\ calls = [c \in Calls |-> IdleCall]
    /\ jobs = [c \in Calls |-> NoJobs]
    /\ preparedOk = {}
    /\ wavBuffer = << >>
    /\ pcmOutcome = NotConverted
    /\ validation = "unchecked"
    /\ health = NoHealth
    /\ shutdownRow = << >>
    /\ plugin = NoPlugin
    /\ status = NoStatus
    /\ host = NoHost
    /\ voices = ProviderVoices
    /\ listings = << >>

SpecFs == InitFs /\ [][Next]_vars

-----------------------------------------------------------------------------
(* healthCheck and shutdown on a provider that has or has not been used *)

\* What the catch block of healthCheck makes of an error, rethrown.
healthOnErrorRethrows == "threw"

\* What the catch block of healthCheck makes of an error: return false.
healthOnError == "false"

\* healthCheck() is called: with no client it awaits import("dockerode"),
\* with one it issues listContainers at once.
HealthCheck ==
    /\ health.pc \in {"idle", "done"}
    /\ health' = [NoHealth EXCEPT !.pc = IF docker = Undefined THEN "import" ELSE "list"]
    /\ UNCHANGED <<config, docker, downloadedModels, fs, clock, calls, jobs, preparedOk,
                   wavBuffer, pcmOutcome, validation, shutdownRow, plugin, host, voices,
                   listings, status>>

\* import("dockerode") settles and new Docker() runs; listContainers is
\* issued in the same turn.  The import may reject and the constructor throw.
HealthImport(how) ==
    /\ health.pc = "import"
    /\ IF how = "ok"
       THEN /\ docker' = Client
            /\ health' = [health EXCEPT !.pc = "list", !.loaded = how]
            /\ shutdownRow' = << >>
       ELSE /\ health' = [health EXCEPT !.pc = "done", !.loaded = how,
                                        !.outcome = healthOnError]
            /\ UNCHANGED <<docker, shutdownRow>>
    /\ UNCHANGED <<config, downloadedModels, fs, clock, calls, jobs, preparedOk,
                   wavBuffer, pcmOutcome, validation, plugin, host, voices, listings,
                   status>>

\* listContainers({limit: 1}) settles.
HealthList(ok) ==
    /\ health.pc = "list"
    /\ health' = [health EXCEPT !.pc = "done",
                                !.listed = IF ok THEN "resolved" ELSE "rejected",
                                !.outcome = IF ok THEN "true" ELSE healthOnError]
    /\ UNCHANGED <<config, docker, downloadedModels, fs, clock, calls, jobs, preparedOk,
                   wavBuffer, pcmOutcome, validation, shutdownRow, plugin, host, voices,
                   listings, status>>

\* this.docker and this.downloadedModels
providerState == [docker |-> docker, downloadedModels |-> downloadedModels]

\* shutdown() called once more, nothing else having touched the provider
\* since the previous call of the row.
ShutdownInARow ==
    /\ Len(shutdownRow) < MaxShutdowns
    /\ shutdown
    /\ shutdownRow' = Append(shutdownRow, [before |-> providerState,
                                           after |-> providerState'])

\* Configurations a provider is constructed with.
LifeConfigs == {DEFAULT_CONFIG, [DEFAULT_CONFIG EXCEPT !.voice = "nonexistent-voice"]}

\* Voices synthesize has been called for.
LifeVoices == {"en_US-lessac-medium", "en_GB-alan-medium"}

\* A provider fresh from its constructor or shut down (no client, no voice
\* cached), or one that synthesize has run on (a client, some voices cached).
InitLife ==
    /\ config \in LifeConfigs
    /\ \/ docker = Undefined /\ downloadedModels = {}
       \/ docker = Client /\ downloadedModels \in SUBSET LifeVoices
    /\ fs = << >>
    /\ clock = 0
    /\ calls = [c \in Calls |-> IdleCall]
    /\ jobs = [c \in Calls |-> NoJobs]
    /\ preparedOk = {}
    /\ wavBuffer = << >>
    /\ pcmOutcome = NotConverted
    /\ validation = "unchecked"
    /\ health = NoHealth
    /\ shutdownRow = << >>
    /\ plugin = NoPlugin
    /\ status = NoStatus
    /\ host = NoHost
    /\ voices = ProviderVoices
    /\ listings = << >>

NextLife ==
    \/ HealthCheck
    \/ \E how \in {"ok", "importRejects", "constructorThrows"} : HealthImport(how)
    \/ \E ok \in BOOLEAN : HealthList(ok)
    \/ ShutdownInARow
    \/ ValidateConfigCall

SpecLife == InitLife /\ [][NextLife]_vars

\* C13: after every shutdown() of a row of calls the model cache is empty and
\* the client handle unset, and from the second call of the row on the state
\* before the call, the state after it and the state after the call before it
\* are the same.
C13_ShutdownIdempotent ==
    \A i \in 1..Len(shutdownRow) :
        /\ shutdownRow[i].after = [docker |-> "undefined", downloadedModels |-> {}]
        /\ i > 1 => /\ shutdownRow[i].after = shutdownRow[i - 1].after
                    /\ shutdownRow[i].before = shutdownRow[i - 1].after

C13_Witness ==
    /\ Len(shutdownRow) >= 2
    /\ shutdownRow[1].before.docker = Client
    /\ shutdownRow[1].before.downloadedModels # {}

\* C14: a healthCheck that has completed returned true or false and did not
\* throw; it returned true when the container-list query resolved and false
\* when the import rejected, the constructor threw or the query rejected; and
\* it has no outcome before it completes.
C14_HealthCheckNeverThrows ==
    /\ health.pc = "done"
           => /\ health.outcome \in {"true", "false"}
              /\ health.listed = "resolved" => health.outcome = "true"
              /\ health.listed = "rejected" => health.outcome = "false"
              /\ health.loaded \in {"importRejects", "constructorThrows"}
                     => health.outcome = "false"
              /\ health.outcome = "true" => health.listed = "resolved"
    /\ health.pc # "done" => health.outcome = "none"

C14_Witness ==
    /\ health.pc = "done"
    /\ health.loaded = "constructorThrows"
    /\ health.outcome = "false"

\* C15: a healthCheck that completes on a provider whose validateConfig has
\* not completed successfully returns false.
C15_UnvalidatedIsUnhealthy ==
    (health.pc = "done" /\ validation # "ok") => health.outcome = "false"

-----------------------------------------------------------------------------
(* The plugin's init, called by a host with the configuration it holds *)

\* The optional registration functions a host context may offer.
OptionalOffers == {"registerConfigSchema", "registerA2AServer"}

\* The functions the cleanups call if the context has them.
OptionalUndos == {"unregisterExtension", "unregisterConfigSchema"}

\* the registrations made before the configuration is looked at
PluginInitRegistersFirst ==
    /\ host.initOutcome = "none"
    /\ validation' = validateConfig(config)
    /\ plugin' = [provider |-> "provider", cleanups |-> <<"unregisterExtension">>]
    /\ host' = [host EXCEPT !.registered = <<"registerProvider", "registerExtension">>,
                            !.log = Append(host.log, IF validation' = "ok" THEN "info"
                                                     ELSE "error"),
                            !.initOutcome = "returned"]
    /\ UNCHANGED <<config, docker, downloadedModels, fs, clock, calls, jobs, preparedOk,
                   wavBuffer, pcmOutcome, health, shutdownRow, voices, listings,
                   status>>

\* init(pluginCtx): the provider is constructed from ctx.getConfig() and
\* validated; a throw of validateConfig is caught, logged as an error and init
\* returns; otherwise the provider and the "tts" extension are registered,
\* then whatever else the context offers, each undo being pushed on cleanups
\* where the code pushes one, and an info line is logged.  init has no await.
PluginInit ==
    /\ host.initOutcome = "none"
    /\ validation' = validateConfig(config)
    /\ IF validation' # "ok"
       THEN /\ plugin' = [plugin EXCEPT !.provider = "provider"]
            /\ host' = [host EXCEPT !.log = Append(host.log, "error"),
                                    !.initOutcome = "returned"]
       ELSE LET schema == "registerConfigSchema" \in host.offers
                a2a == "registerA2AServer" \in host.offers
            IN /\ plugin' = [provider |-> "provider",
                             cleanups |-> plugin.cleanups \o <<"unregisterExtension">>
                                 \o (IF schema THEN <<"unregisterConfigSchema">> ELSE << >>)]
               /\ host' = [host EXCEPT
                              !.registered = host.registered
                                  \o <<"registerProvider", "registerExtension">>
                                  \o (IF schema THEN <<"registerConfigSchema">> ELSE << >>)
                                  \o (IF a2a THEN <<"registerA2AServer">> ELSE << >>),
                              !.log = Append(host.log, "info"),
                              !.initOutcome = "returned"]
    /\ UNCHANGED <<config, docker, downloadedModels, fs, clock, calls, jobs, preparedOk,
                   wavBuffer, pcmOutcome, health, shutdownRow, voices, listings,
                   status>>

\* A host holding any of the configurations and offering any of the optional
\* registration functions.
InitPlugin ==
    /\ config \in ConfigInputs
    /\ host \in { [NoHost EXCEPT !.offers = o] : o \in SUBSET (OptionalOffers \cup OptionalUndos) }
    /\ plugin = NoPlugin
    /\ status = NoStatus
    /\ docker = Undefined
    /\ downloadedModels = {}
    /\ fs = << >>
    /\ clock = 0
    /\ calls = [c \in Calls |-> IdleCall]
    /\ jobs = [c \in Calls |-> NoJobs]
    /\ preparedOk = {}
    /\ wavBuffer = << >>
    /\ pcmOutcome = NotConverted
    /\ validation = "unchecked"
    /\ health = NoHealth
    /\ shutdownRow = << >>
    /\ voices = ProviderVoices
    /\ listings = << >>

\* [...cleanups].reverse()
reverse(s) == [i \in 1..Len(s) |-> s[Len(s) + 1 - i]]

\* The calls that reach the host when the cleanups in todo run in order: a
\* cleanup calls its function if the context has it (?.), and the catch
\* around each cleanup lets the next one run whether or not the call threw.
RECURSIVE runCleanups(_, _)
runCleanups(todo, offers) ==
    IF todo = << >> THEN << >>
    ELSE (IF Head(todo) \in offers THEN <<Head(todo)>> ELSE << >>)
             \o runCleanups(Tail(todo), offers)

\* shutdown(): the cleanups run in reverse, each inside try/catch, the list
\* is emptied, the provider is shut down and dropped.  throwing are the host
\* functions that throw when called.
PluginShutdown(throwing) ==
    /\ host.initOutcome = "returned"
    /\ host.shutdownOutcome = "none"
    /\ host' = [host EXCEPT
                   !.registered = host.registered
                       \o runCleanups(reverse(plugin.cleanups), host.offers),
                   !.thrown = throwing \cap host.offers
                                  \cap {plugin.cleanups[i] : i \in 1..Len(plugin.cleanups)},
                   !.shutdownOutcome = "returned"]
    /\ plugin' = [provider |-> "null", cleanups |-> << >>]
    /\ IF plugin.provider # "null"
       THEN docker' = Undefined /\ downloadedModels' = {} /\ preparedOk' = {}
       ELSE UNCHANGED <<docker, downloadedModels, preparedOk>>
    /\ UNCHANGED <<config, fs, clock, calls, jobs, wavBuffer, pcmOutcome, validation,
                   health, shutdownRow, voices, listings, status>>

NextPlugin ==
    \/ PluginInit
    \/ \E throwing \in SUBSET OptionalUndos : PluginShutdown(throwing)

SpecPlugin == InitPlugin /\ [][NextPlugin]_vars

\* C16: once init has been called it has returned, not thrown; with a
\* configuration whose voice is not in the catalog, whose sample rate is not
\* one of the four allowed or whose speed is outside 0.5..2.0, nothing is
\* registered with the host, no cleanup is recorded and an error is logged;
\* with any other configuration the provider is registered.
C16_InvalidConfigRegistersNothing ==
    host.initOutcome # "none"
        => LET valid == /\ config.voice \in VoiceIds
                        /\ config.sampleRate \in {16000, 22050, 24000, 48000}
                        /\ config.speed >= 50 /\ config.speed <= 200
           IN /\ host.initOutcome = "returned"
              /\ ~valid => /\ host.registered = << >>
                           /\ plugin.cleanups = << >>
                           /\ \E i \in 1..Len(host.log) : host.log[i] = "error"
              /\ valid => /\ \E i \in 1..Len(host.registered) :
                                 host.registered[i] = "registerProvider"
                          /\ \A i \in 1..Len(host.log) : host.log[i] # "error"

C16_Witness ==
    /\ host.initOutcome = "returned"
    /\ host.offers = OptionalOffers
    /\ config.voice = "en_US-lessac-medium" /\ config.sampleRate = 22050
    /\ config.speed = 201
    /\ host.registered = << >>
    /\ host.log = <<"error">>

-----------------------------------------------------------------------------
(* The WebMCP listVoices handler over a provider's voices *)

\* the letters left as they are
toLowerCaseNoop(s) == s

\* String.prototype.toLowerCase on the letters A..Z
toLowerCase(s) == [i \in 1..Len(s) |-> IF s[i] \in 65..90 THEN s[i] + 32 ELSE s[i]]

\* String.prototype.startsWith
startsWith(s, prefix) ==
    /\ Len(prefix) <= Len(s)
    /\ SubSeq(s, 1, Len(prefix)) = prefix

\* if (lang): a string that is not empty
truthy(v) == v.kind = "string" /\ v.str # << >>

\* v.language?.toLowerCase().startsWith(lang.toLowerCase()), undefined being falsy
matchesLanguage(v, lang) ==
    /\ v.language.kind = "string"
    /\ startsWith(toLowerCase(v.language.str), toLowerCase(lang.str))

\* x ?? null
orNull(x) == IF x.kind = "string" THEN x ELSE Null

\* The object the handler returns for input on a provider with providerVoices.
listVoices(providerVoices, input) ==
    LET copy == providerVoices
        lang == input.language
        filtered == IF truthy(lang)
                    THEN SelectSeq(copy, LAMBDA v : matchesLanguage(v, lang))
                    ELSE copy
    IN [provider |-> "piper-tts",
        count |-> Len(filtered),
        voices |-> [i \in 1..Len(filtered) |->
                       [id |-> filtered[i].id, language |-> orNull(filtered[i].language)]]]

\* the filter applied to provider.voices itself
ListVoicesCallInPlace(input) ==
    /\ Len(listings) < MaxListings
    /\ listings' = Append(listings, [input |-> input, result |-> listVoices(voices, input)])
    /\ voices' = IF truthy(input.language)
                 THEN SelectSeq(voices, LAMBDA v : matchesLanguage(v, input.language))
                 ELSE voices
    /\ UNCHANGED <<config, docker, downloadedModels, fs, clock, calls, jobs, preparedOk,
                   wavBuffer, pcmOutcome, validation, health, shutdownRow, plugin, host,
                   status>>

\* handlers["piper-tts.listVoices"](input)
ListVoicesCall(input) ==
    /\ Len(listings) < MaxListings
    /\ listings' = Append(listings, [input |-> input, result |-> listVoices(voices, input)])
    /\ UNCHANGED <<config, docker, downloadedModels, fs, clock, calls, jobs, preparedOk,
                   wavBuffer, pcmOutcome, validation, health, shutdownRow, plugin, host,
                   voices, status>>

\* the voices of the handler tests' provider
MockVoices ==
    << [id |-> "en_US-lessac-medium", language |-> Str(EnUS)],
       [id |-> "en_GB-alan-medium", language |-> Str(EnGB)],
       [id |-> "de_DE-thorsten-medium", language |-> Str(DeDE)],
       [id |-> "fr_FR-upmc-medium", language |-> Str(FrFR)] >>

\* a provider one of whose voices has no language
UntaggedVoices ==
    << [id |-> "en_US-lessac-medium", language |-> Str(EnUS)],
       [id |-> "untagged-voice", language |-> UndefinedValue],
       [id |-> "en_GB-alan-medium", language |-> Str(EnGB)] >>

\* input.language: left out, "", "en", "EN", "e", "en-us", "de-DE", "ja",
\* "en-US-x"
LanguageInputs ==
    { UndefinedValue, Str(<< >>), Str(<<101, 110>>), Str(<<69, 78>>), Str(<<101>>),
      Str(<<101, 110, 45, 117, 115>>), Str(DeDE), Str(<<106, 97>>),
      Str(EnUS \o <<45, 120>>) }

InitVoices ==
    /\ voices \in {ProviderVoices, MockVoices, UntaggedVoices}
    /\ listings = << >>
    /\ config = DEFAULT_CONFIG
    /\ docker = Undefined
    /\ downloadedModels = {}
    /\ fs = << >>
    /\ clock = 0
    /\ calls = [c \in Calls |-> IdleCall]
    /\ jobs = [c \in Calls |-> NoJobs]
    /\ preparedOk = {}
    /\ wavBuffer = << >>
    /\ pcmOutcome = NotConverted
    /\ validation = "unchecked"
    /\ health = NoHealth
    /\ shutdownRow = << >>
    /\ plugin = NoPlugin
    /\ status = NoStatus
    /\ host = NoHost

NextVoices == \E language \in LanguageInputs : ListVoicesCall([language |-> language])

SpecVoices == InitVoices /\ [][NextVoices]_vars

\* C19: a listVoices call without a language returns as many voices as the
\* provider has, with the same ids in the same order, and count is that
\* number; no step changes provider.voices; two calls with the same input
\* return the same object.
C19_UnfilteredListsCatalog ==
    /\ [](\A k \in 1..Len(listings) :
            listings[k].input.language.kind = "undefined"
                => /\ listings[k].result.count = Len(voices)
                   /\ Len(listings[k].result.voices) = Len(voices)
                   /\ \A i \in 1..Len(voices) :
                          listings[k].result.voices[i].id = voices[i].id)
    /\ [][voices' = voices]_vars
    /\ [](\A j, k \in 1..Len(listings) :
            listings[j].input = listings[k].input
                => listings[j].result = listings[k].result)

C19_Witness ==
    /\ voices = ProviderVoices
    /\ Len(listings) = 2
    /\ listings[1].input.language = Str(<<101, 110>>)
    /\ listings[2].input.language = UndefinedValue
    /\ listings[2].result.count = 10

\* a and b are the same character up to the case of a letter A..Z
SameLetter(a, b) ==
    \/ a = b
    \/ a \in 65..90 /\ b = a + 32
    \/ b \in 65..90 /\ a = b + 32

\* tag begins with filter, case ignored
PrefixIgnoringCase(tag, filter) ==
    /\ Len(filter) <= Len(tag)
    /\ \A j \in 1..Len(filter) : SameLetter(tag[j], filter[j])

\* the voice has a language tag that begins with filter, case ignored
Tagged(v, filter) ==
    /\ v.language.kind = "string"
    /\ PrefixIgnoringCase(v.language.str, filter)

\* C20: a listVoices call with a non-empty language returns, in catalog order,
\* exactly the voices whose language tag begins with it when case is ignored,
\* none of them without a language tag, and nothing when no voice matches; and
\* count is the number of voices returned in every call.
C20_FilterIsCaseInsensitivePrefix ==
    \A k \in 1..Len(listings) :
        LET filter == listings[k].input.language
            result == listings[k].result
            expected == SelectSeq(voices, LAMBDA v : Tagged(v, filter.str))
        IN /\ result.count = Len(result.voices)
           /\ (filter.kind = "string" /\ filter.str # << >>)
                  => /\ Len(result.voices) = Len(expected)
                     /\ \A i \in 1..Len(expected) :
                            /\ result.voices[i].id = expected[i].id
                            /\ result.voices[i].language = expected[i].language
                     /\ \A i \in 1..Len(result.voices) :
                            result.voices[i].language.kind = "string"
                     /\ (\A i \in 1..Len(voices) : ~Tagged(voices[i], filter.str))
                            => result.voices = << >> /\ result.count = 0

C20_Witness ==
    /\ voices = UntaggedVoices
    /\ Len(listings) = 2
    /\ listings[1].input.language = Str(<<69, 78>>)
    /\ listings[1].result.count = 2
    /\ listings[2].input.language = Str(<<106, 97>>)
    /\ listings[2].result.count = 0

-----------------------------------------------------------------------------
(* The WebMCP getStatus handler *)

\* provider.metadata, the fields the handler reads
metadata ==
    [name |-> "piper-tts", type |-> "tts", version |-> "1.0.0",
     description |-> "Local TTS using Piper in Docker", local |-> TRUE,
     capabilities |-> <<"voice-selection", "speed-control">>]

\* health reported as true whatever healthCheck returned
statusObjectAlwaysHealthy(healthy, providerVoices) ==
    [provider |-> metadata.name, type |-> metadata.type, version |-> metadata.version,
     description |-> metadata.description, local |-> metadata.local,
     capabilities |-> metadata.capabilities, healthy |-> TRUE,
     voiceCount |-> Len(providerVoices)]

\* The object literal of the handler, healthy being what the awaited
\* healthCheck() resolved with.
statusObject(healthy, providerVoices) ==
    [provider |-> metadata.name, type |-> metadata.type, version |-> metadata.version,
     description |-> metadata.description, local |-> metadata.local,
     capabilities |-> metadata.capabilities, healthy |-> healthy,
     voiceCount |-> Len(providerVoices)]

\* handlers["piper-tts.getStatus"]({}) up to its await: the metadata fields
\* are read and provider.healthCheck() is called, which runs to its own
\* first await.
GetStatus ==
    /\ status.pc \in {"idle", "done"}
    /\ health.pc \in {"idle", "done"}
    /\ status' = [NoStatus EXCEPT !.pc = "awaiting"]
    /\ health' = [NoHealth EXCEPT !.pc = IF docker = Undefined THEN "import" ELSE "list"]
    /\ UNCHANGED <<config, docker, downloadedModels, fs, clock, calls, jobs, preparedOk,
                   wavBuffer, pcmOutcome, validation, shutdownRow, plugin, host, voices,
                   listings>>

\* healthCheck() has settled: voices.length is read and the object returned;
\* had healthCheck thrown, the handler would reject.
GetStatusReturn ==
    /\ status.pc = "awaiting"
    /\ health.pc = "done"
    /\ status' = IF health.outcome = "threw"
                 THEN [pc |-> "threw", result |-> << >>]
                 ELSE [pc |-> "done",
                       result |-> <<statusObject(health.outcome = "true", voices)>>]
    /\ UNCHANGED <<config, docker, downloadedModels, fs, clock, calls, jobs, preparedOk,
                   wavBuffer, pcmOutcome, validation, health, shutdownRow, plugin, host,
                   voices, listings>>

\* Handlers made for a provider, fresh or used, with one of the catalogs.
InitStatus ==
    /\ config = DEFAULT_CONFIG
    /\ \/ docker = Undefined /\ downloadedModels = {}
       \/ docker = Client /\ downloadedModels \in SUBSET LifeVoices
    /\ voices \in {ProviderVoices, MockVoices, UntaggedVoices}
    /\ fs = << >>
    /\ clock = 0
    /\ calls = [c \in Calls |-> IdleCall]
    /\ jobs = [c \in Calls |-> NoJobs]
    /\ preparedOk = {}
    /\ wavBuffer = << >>
    /\ pcmOutcome = NotConverted
    /\ validation = "unchecked"
    /\ health = NoHealth
    /\ shutdownRow = << >>
    /\ plugin = NoPlugin
    /\ status = NoStatus
    /\ host = NoHost
    /\ listings = << >>

NextStatus ==
    \/ GetStatus
    \/ \E how \in {"ok", "importRejects", "constructorThrows"} : HealthImport(how)
    \/ \E ok \in BOOLEAN : HealthList(ok)
    \/ GetStatusReturn
    \/ ShutdownInARow

SpecStatus == InitStatus /\ [][NextStatus]_vars

\* C21: a getStatus call that has completed returned an object whose
\* provider, type and local are "piper-tts", "tts" and true, whose healthy is
\* what the healthCheck of that call returned, whose voiceCount is the number
\* of the provider's voices and which has no config, docker or
\* downloadedModels field; the call does not reject.
C21_StatusObject ==
    /\ status.pc \in {"idle", "awaiting", "done"}
    /\ status.pc = "done"
           => LET result == status.result[1]
              IN /\ result.provider = "piper-tts"
                 /\ result.type = "tts"
                 /\ result.local = TRUE
                 /\ result.healthy = (health.outcome = "true")
                 /\ result.healthy = (health.listed = "resolved")
                 /\ result.voiceCount = Len(voices)
                 /\ {"config", "docker", "downloadedModels"} \cap DOMAIN result = {}

C21_Witness ==
    /\ status.pc = "done"
    /\ voices = MockVoices
    /\ health.listed = "rejected"
    /\ status.result[1].healthy = FALSE
    /\ status.result[1].voiceCount = 4

-----------------------------------------------------------------------------
(* Properties of model preparation and of the client handle *)

\* where a call stands while it is inside ensureModelDownloaded
PrepPcs == {"prepImport", "pull", "mkdir", "prepCreate", "prepStart", "prepWait"}

\* C22: a synthesize call that starts for a voice in the model cache goes
\* straight to naming its files and never pulls the image or creates a
\* preparation job afterwards; a call that starts for a voice not in the cache
\* enters the preparation, and leaves it for the synthesis only when its
\* preparation job has exited and the voice has been put in the cache.
C22_ReadyVoiceSkipsPreparation ==
    /\ [][\A c \in Calls :
            (calls[c].pc = "idle" /\ calls'[c].pc # "idle")
                => IF calls'[c].voice \in downloadedModels
                   THEN calls'[c].pc = "names" /\ jobs'[c] = NoJobs
                   ELSE calls'[c].pc \in {"prepImport", "pull"}]_vars
    /\ [][\A c \in Calls :
            (calls[c].pc \notin PrepPcs \cup {"idle"})
                => calls'[c].pc \notin PrepPcs /\ jobs'[c].prep = jobs[c].prep]_vars
    /\ [][\A c \in Calls :
            (calls[c].pc \in PrepPcs /\ calls'[c].pc \notin PrepPcs \cup {"done"})
                => /\ calls[c].pc = "prepWait" /\ calls'[c].pc = "names"
                   /\ jobs'[c].prep \in {"exited0", "exited1"}
                   /\ calls[c].voice \in downloadedModels']_vars

C22_Witness ==
    \E c \in Calls :
        /\ calls[c].pc = "runWait"
        /\ jobs[c] = [prep |-> "none", run |-> "running"]
        /\ calls[c].voice \in downloadedModels

\* C23: the client is constructed and assigned only while the handle is
\* unset: no synthesize call completes its import("dockerode") and assigns a
\* new client to a handle that another call has already set since the last
\* shutdown.
C23_ClientConstructedOnce ==
    [][\A c \in Calls :
          \/ calls[c].pc = "prepImport" /\ calls'[c].pc = "pull"
          \/ calls[c].pc = "runImport" /\ calls'[c].pc = "runCreate"
          => docker = Undefined]_vars

\* C27: when a call is about to read its output file after its synthesis job
\* exited with status zero, the host file behind the job's /output/output.wav
\* is the call's wavFile, and once the job has written its output the file is
\* there to be read.
C27_JobWritesTheFileRead ==
    \A c \in Calls :
        (calls[c].pc = "read" /\ jobs[c].run = "exited0")
            => hostOutputFile(calls[c].wavFile) = calls[c].wavFile

\* C28: from a state that shutdown() has left (no client, empty cache) in
\* which every call under way started before that shutdown and no call has
\* been started since, a step that starts no call leaves the cache empty.
C28_CacheStaysEmptyAfterShutdown ==
    [][(/\ docker = Undefined
        /\ downloadedModels = {}
        /\ \A c \in Calls : calls[c].pc \in {"idle"} \cup (PrepPcs \ {"prepImport"})
        /\ \A c \in Calls : calls[c].pc = "idle" => calls'[c].pc = "idle")
           => downloadedModels' = {}]_vars

\* C29: no synthesize call fails on dereferencing an unset client handle.
C29_HandleSetWhenUsed ==
    \A c \in Calls : calls[c].error # "TypeError"

\* C24: when pullImage settles, resolved or rejected, the call goes on to
\* mkdir with no error; a call whose pull was rejected and logged is still in
\* its preparation with no error, and the rejection is not what it throws.
C24_PullFailureSwallowed ==
    /\ [][\A c \in Calls :
            (calls[c].pc = "pull" /\ calls'[c] # calls[c])
                => calls'[c].pc = "mkdir" /\ calls'[c].error = ""]_vars
    /\ [](\A c \in Calls :
            calls[c].pullWarning # ""
                => /\ calls[c].pc \in {"mkdir", "prepCreate", "prepStart", "prepWait"}
                   /\ calls[c].error = "")

C24_Witness ==
    \E c \in Calls :
        /\ calls[c].pullWarning = "rejected"
        /\ calls[c].pc = "prepWait"
        /\ jobs[c].prep = "running"

\* C25: once a synthesize call has returned or thrown, neither its preparation
\* job nor its synthesis job is running.
C25_NoJobOutlivesItsCall ==
    \A c \in Calls :
        calls[c].pc = "done" => jobs[c].prep # "running" /\ jobs[c].run # "running"

\* C30: the two removals of the finally block leave the error and the result
\* of the call as the try block left them, whether or not the file to remove
\* is there; the second removal follows the first and the call then settles;
\* and a settled call has either its result or an error.
C30_CleanupKeepsOutcome ==
    /\ [][\A c \in Calls :
            (calls[c].pc = "unlinkText" /\ calls'[c] # calls[c])
                => /\ calls'[c].pc = "unlinkWav"
                   /\ calls'[c].error = calls[c].error
                   /\ calls'[c].result = calls[c].result
                   /\ calls[c].textFile \notin DOMAIN fs']_vars
    /\ [][\A c \in Calls :
            (calls[c].pc = "unlinkWav" /\ calls'[c] # calls[c])
                => /\ calls'[c].pc = "done"
                   /\ calls'[c].error = calls[c].error
                   /\ calls'[c].result = calls[c].result
                   /\ calls[c].wavFile \notin DOMAIN fs']_vars
    /\ [](\A c \in Calls :
            calls[c].pc = "done" => (calls[c].error = "") # (calls[c].result = NoResult))

C30_Witness ==
    \E c \in Calls :
        /\ calls[c].pc = "unlinkWav"
        /\ calls[c].swallowed = "ENOENT"
        /\ calls[c].result # NoResult
        /\ calls[c].wavFile \notin DOMAIN fs

\* the host function that undoes a registration
UndoOf ==
    [registerProvider |-> "unregisterProvider",
     registerExtension |-> "unregisterExtension",
     registerConfigSchema |-> "unregisterConfigSchema",
     registerA2AServer |-> "unregisterA2AServer"]

\* C26: once shutdown has completed after an init that registered the
\* provider, every registration made is followed by the call that undoes it,
\* the undo calls come in the reverse of the registration order, the cleanup
\* list is empty and the provider reference is null.
C26_ShutdownUndoesEveryRegistration ==
    (/\ host.shutdownOutcome = "returned"
     /\ \E i \in 1..Len(host.registered) : host.registered[i] = "registerProvider")
        => /\ \A i \in 1..Len(host.registered) :
                  host.registered[i] \in DOMAIN UndoOf
                      => \E j \in (i + 1)..Len(host.registered) :
                             host.registered[j] = UndoOf[host.registered[i]]
           /\ \A i, j \in 1..Len(host.registered) :
                  (/\ i < j
                   /\ host.registered[i] \in DOMAIN UndoOf
                   /\ host.registered[j] \in DOMAIN UndoOf)
                      => \A k, l \in 1..Len(host.registered) :
                             (/\ host.registered[k] = UndoOf[host.registered[i]]
                              /\ host.registered[l] = UndoOf[host.registered[j]])
                                 => l < k
           /\ plugin.cleanups = << >>
           /\ plugin.provider = "null"
====
